---- MODULE Spec2Model ----
(***************************************************************************)
(* Model of the retrieval engine of chat_assist (utils/context_search.py): *)
(* the chunker, the ContextSearch constructor and ContextSearch.query,     *)
(* sequentially (Spec) and with two callers interleaved (SpecConc); the    *)
(* chunker alone, one loop pass at a time (SpecChunk); and of the          *)
(* conversation store (utils/conversation.py, SpecConv) and the streaming  *)
(* response handler (utils/streaming.py, SpecStream); of the upload       *)
(* buffer (utils/file_handler.py, SpecFile), the prompt builder            *)
(* (utils/prompt_builder.py, SpecPrompt) and the stream loop of            *)
(* chat_assist.py (SpecLoop).                                              *)
(*                                                                         *)
(* Text is a sequence of one-character strings over the alphabet           *)
(* {"a", "b", ".", " ", "\n"}; a byte sequence may also hold BadByte, a    *)
(* byte that is not valid UTF-8.  Scores are similarities in tenths.       *)
(***************************************************************************)
EXTENDS Integers, Sequences, FiniteSets, TLC

\* ------------------------------------------------------------------------
\* Bounds of the model
\* ------------------------------------------------------------------------
MaxParas == 2        \* documents hold up to MaxParas full paragraphs
MaxQueries == 2      \* number of query calls started on one engine
MaxK == 2            \* largest explicit top_k argument
MaxSents == 2        \* sentences per paragraph of a text given to the chunker
MaxMessages == 3     \* messages held by one session
MaxSegments == 3     \* pieces (tags, filler) a streamed response is made of
MaxChunks == 3       \* chunks of one response streamed to chat_assist.py

\* ------------------------------------------------------------------------
\* Text primitives (Python str methods and the regular expressions)
\* ------------------------------------------------------------------------
NL == "\n"
WS == {" ", NL}
Terminal == {".", "!", "?"}
BadByte == "xFF"

SetMin(S) == CHOOSE x \in S : \A y \in S : x <= y
SetMax(S) == CHOOSE x \in S : \A y \in S : x >= y

RECURSIVE LStrip(_)
LStrip(s) == IF s # <<>> /\ Head(s) \in WS THEN LStrip(Tail(s)) ELSE s

RECURSIVE RStrip(_)
RStrip(s) ==
    IF s # <<>> /\ s[Len(s)] \in WS THEN RStrip(SubSeq(s, 1, Len(s) - 1)) ELSE s

\* str.strip()
Strip(s) == RStrip(LStrip(s))

\* str.split(): the maximal runs of non-whitespace characters
RECURSIVE SplitWords(_)
SplitWords(s) ==
    LET t == LStrip(s)
        ws == {i \in 1..Len(t) : t[i] \in WS}
        n == IF ws = {} THEN Len(t) + 1 ELSE SetMin(ws)
    IN  IF t = <<>> THEN <<>>
        ELSE <<SubSeq(t, 1, n - 1)>> \o SplitWords(SubSeq(t, n, Len(t)))

\* " ".join(parts)
RECURSIVE Join(_)
Join(parts) ==
    IF parts = <<>> THEN <<>>
    ELSE IF Len(parts) = 1 THEN parts[1]
    ELSE parts[1] \o <<" ">> \o Join(Tail(parts))

\* seq[-n:] for n > 0
LastN(seq, n) ==
    IF Len(seq) <= n THEN seq ELSE SubSeq(seq, Len(seq) - n + 1, Len(seq))

\* re.split(r"\n\s*\n", s): the leftmost match starts at the first newline
\* that is followed, over whitespace only, by another newline, and the
\* greedy \s* carries it to the last such newline.
RECURSIVE ReSplitBlankLines(_)
ReSplitBlankLines(s) ==
    LET Ends(i) == {j \in (i + 1)..Len(s) :
                        s[j] = NL /\ \A m \in (i + 1)..(j - 1) : s[m] \in WS}
        starts == {i \in 1..Len(s) : s[i] = NL /\ Ends(i) # {}}
    IN  IF starts = {} THEN <<s>>
        ELSE LET i == SetMin(starts)
                 j == SetMax(Ends(i))
             IN  <<SubSeq(s, 1, i - 1)>>
                     \o ReSplitBlankLines(SubSeq(s, j + 1, Len(s)))

\* re.split(r'(?<=[.!?])\s+', s): a whitespace run that directly follows a
\* terminal punctuation mark separates two sentences.
RECURSIVE ReSplitSentences(_)
ReSplitSentences(s) ==
    LET starts == {i \in 2..Len(s) : s[i] \in WS /\ s[i - 1] \in Terminal}
    IN  IF starts = {} THEN <<s>>
        ELSE LET i == SetMin(starts)
                 j == SetMax({e \in i..Len(s) : \A m \in i..e : s[m] \in WS})
             IN  <<SubSeq(s, 1, i - 1)>>
                     \o ReSplitSentences(SubSeq(s, j + 1, Len(s)))

\* [p.strip() for p in parts if p.strip()]
RECURSIVE StripNonEmpty(_)
StripNonEmpty(parts) ==
    IF parts = <<>> THEN <<>>
    ELSE IF Strip(Head(parts)) = <<>> THEN StripNonEmpty(Tail(parts))
    ELSE <<Strip(Head(parts))>> \o StripNonEmpty(Tail(parts))

split_into_paragraphs(text) ==
    IF Strip(text) = <<>> THEN <<>>
    ELSE StripNonEmpty(ReSplitBlankLines(Strip(text)))

split_paragraph_into_sentences(paragraph) ==
    IF Strip(paragraph) = <<>> THEN <<>>
    ELSE StripNonEmpty(ReSplitSentences(Strip(paragraph)))

\* ------------------------------------------------------------------------
\* create_contextual_chunks
\* ------------------------------------------------------------------------
\* The loop body with the slice taken without the "if overlap > 0" test:
\* words[-0:] is the whole list.  (Variant used to show what C15 rests on.)
SentenceStep_SliceUnguarded(sent, cur, len, out, maxWords, overlap) ==
    LET words_in_sent == Len(SplitWords(sent))
        flush == cur # <<>> /\ (len + words_in_sent) > maxWords
        chunk_text == Join(cur)
        overlap_words == IF overlap > 0
                         THEN LastN(SplitWords(chunk_text), overlap)
                         ELSE SplitWords(chunk_text)
        cur1 == IF ~flush THEN cur ELSE overlap_words
        len1 == IF ~flush THEN len ELSE Len(overlap_words)
        out1 == IF flush THEN Append(out, chunk_text) ELSE out
    IN  [cur |-> Append(cur1, sent), len |-> len1 + words_in_sent, out |-> out1]

\* The loop body with a flush test that leaves the new sentence out,
\* "current_length > max_words_per_chunk".  (Variant used to show what C22
\* rests on.)
SentenceStep_IgnoresSentence(sent, cur, len, out, maxWords, overlap) ==
    LET words_in_sent == Len(SplitWords(sent))
        flush == cur # <<>> /\ len > maxWords
        chunk_text == Join(cur)
        overlap_words == LastN(SplitWords(chunk_text), overlap)
        cur1 == IF ~flush THEN cur
                ELSE IF overlap > 0 THEN overlap_words ELSE <<>>
        len1 == IF ~flush THEN len
                ELSE IF overlap > 0 THEN Len(overlap_words) ELSE 0
        out1 == IF flush THEN Append(out, chunk_text) ELSE out
    IN  [cur |-> Append(cur1, sent), len |-> len1 + words_in_sent, out |-> out1]

\* One pass of the sentence loop body: cur is current_chunk, len is
\* current_length, out is all_chunks.
SentenceStep(sent, cur, len, out, maxWords, overlap) ==
    LET words_in_sent == Len(SplitWords(sent))
        flush == cur # <<>> /\ (len + words_in_sent) > maxWords
        chunk_text == Join(cur)
        overlap_words == LastN(SplitWords(chunk_text), overlap)
        cur1 == IF ~flush THEN cur
                ELSE IF overlap > 0 THEN overlap_words ELSE <<>>
        len1 == IF ~flush THEN len
                ELSE IF overlap > 0 THEN Len(overlap_words) ELSE 0
        out1 == IF flush THEN Append(out, chunk_text) ELSE out
    IN  [cur |-> Append(cur1, sent), len |-> len1 + words_in_sent, out |-> out1]

\* The sentence loop of one paragraph
RECURSIVE SentenceLoop(_, _, _, _, _, _)
SentenceLoop(sentences, cur, len, out, maxWords, overlap) ==
    IF sentences = <<>> THEN [cur |-> cur, len |-> len, out |-> out]
    ELSE LET r == SentenceStep(Head(sentences), cur, len, out, maxWords, overlap)
         IN  SentenceLoop(Tail(sentences), r.cur, r.len, r.out, maxWords, overlap)

\* The end-of-paragraph test with ">" for ">=".  (Variant used to show what
\* C16 rests on.)
ParagraphEnd_Strict(cur, len, out, minWords) ==
    IF cur # <<>> /\ len > minWords THEN Append(out, Join(cur)) ELSE out

\* End of a paragraph: "if current_chunk and current_length >= min_words"
ParagraphEnd(cur, len, out, minWords) ==
    IF cur # <<>> /\ len >= minWords THEN Append(out, Join(cur)) ELSE out

RECURSIVE ParagraphLoop(_, _, _, _, _)
ParagraphLoop(paragraphs, out, maxWords, minWords, overlap) ==
    IF paragraphs = <<>> THEN out
    ELSE LET r == SentenceLoop(split_paragraph_into_sentences(Head(paragraphs)),
                               <<>>, 0, out, maxWords, overlap)
         IN  ParagraphLoop(Tail(paragraphs),
                           ParagraphEnd(r.cur, r.len, r.out, minWords),
                           maxWords, minWords, overlap)

create_contextual_chunks(text, maxWords, minWords, overlap) ==
    ParagraphLoop(split_into_paragraphs(text), <<>>, maxWords, minWords, overlap)

\* ------------------------------------------------------------------------
\* Inputs
\* ------------------------------------------------------------------------
RECURSIVE Rep(_, _)
Rep(s, n) == IF n <= 0 THEN <<>> ELSE s \o Rep(s, n - 1)

\* Paragraph number i: one sentence of 9 + i words, so that every paragraph
\* reaches min_words_per_chunk and the paragraphs differ.
FullPara(i) == Rep(<<"a", " ">>, 8 + i) \o <<"a", ".">>
ShortPara == <<"a", " ", "a", ".">>
ParaBreak == <<NL, NL>>

RECURSIVE DocOf(_)
DocOf(n) ==
    IF n <= 0 THEN <<>>
    ELSE IF n = 1 THEN FullPara(1)
    ELSE DocOf(n - 1) \o ParaBreak \o FullPara(n)

Documents ==
    {DocOf(n) : n \in 0..MaxParas}
        \cup {<<" ", NL>>, ShortPara, ShortPara \o ParaBreak \o FullPara(1)}

\* The file_content argument: None, a str, a bytes object or anything else.
FileContents ==
    {[kind |-> "none", data |-> <<>>], [kind |-> "other", data |-> <<>>]}
        \cup {[kind |-> "str", data |-> d] : d \in Documents}
        \cup {[kind |-> "bytes", data |-> d] :
                d \in {<<>>, DocOf(1), <<BadByte>> \o DocOf(1)}}

\* What pdfplumber makes of a byte sequence: it fails, or it extracts text.
PdfOutcomes ==
    {[ok |-> FALSE, text |-> <<>>], [ok |-> TRUE, text |-> <<>>],
     [ok |-> TRUE, text |-> ShortPara]}

\* Texts handed to create_contextual_chunks directly: one paragraph of "a"
\* words, or one of "a" words and one of "b" words, each of 1..MaxSents
\* sentences of one or two words; and the word limits they are chunked with.
ChunkSentences(c) == {<<c, ".">>, <<c, " ", c, ".">>}
ChunkParagraphs(c) ==
    {Join(ss) : ss \in UNION {[1..n -> ChunkSentences(c)] : n \in 1..MaxSents}}
ChunkTexts ==
    {<<>>, <<" ", NL>>} \cup ChunkParagraphs("a")
        \cup {p1 \o ParaBreak \o p2 :
                p1 \in ChunkParagraphs("a"), p2 \in ChunkParagraphs("b")}
ChunkMaxWords == {1, 2, 3}
ChunkMinWords == {0, 2, 3}
ChunkOverlaps == {0, 1, 2}

Queries == {<<>>, <<" ", NL>>, <<"a">>}

\* Similarity scores in tenths; NegFltMax is the score faiss reports for a
\* missing neighbour (-3.4e38), NegInf stands for float("-inf").
Scores == {2, 5, 8}
NegFltMax == -1000
NegInf == -1001
Thresholds == {NegInf, 5}
NoTopK == -1     \* top_k=None
TopKArgs == {NoTopK} \cup 1..MaxK
DefaultTopK == 5
batch_size == 32

Callers == {1, 2}

\* ------------------------------------------------------------------------
\* State
\* ------------------------------------------------------------------------
VARIABLES
    ctor,             \* "none", "returned" or "raised": how __init__ ended
    file_content,     \* the argument __init__ was given
    pdf,              \* "untried", "failed" or "extracted": the pdfplumber attempt
    top_k, score_threshold, document, chunks,   \* attributes of the engine
    model,            \* self.model: unset (no attribute), none or an object
    index,            \* self.index: unset, none or an index of ntotal vectors
    modelLoads,       \* SentenceTransformer objects constructed
    indexBuilds,      \* faiss indexes constructed
    createCalls,      \* _create_faiss_index invocations that reached the embedder
    embedCalls,       \* model.encode invocations
    backendFailed,    \* a model load or batch encode failed during a build
    nStarted,         \* query calls started
    last,             \* the most recently completed query call: its result
                      \* ret and the rows hits that index.search gave it
    call,             \* per caller: the position inside query
    chunker,          \* one call of create_contextual_chunks: its arguments,
                      \* its locals and the position inside its loops
    session_state,    \* st.session_state: whether it has the key "messages",
                      \* and the list under it
    convCall,         \* the latest ConversationManager call and its result
    handler,          \* a StreamingResponseHandler: its attributes
    stream,           \* the response being streamed to the handler
    file_buffer,      \* st.session_state.file_metadata and .file_content
    fileCall,         \* the latest FileHandler.get_buffered_content call
    prompt_builder,   \* a PromptBuilder: whether it holds the engine
    promptCall,       \* the latest PromptBuilder.build_prompt call
    loop              \* the stream loop of chat_assist.py: its locals

vars == <<ctor, file_content, pdf, top_k, score_threshold, document,
          chunks, model, index, modelLoads, indexBuilds, createCalls,
          embedCalls, backendFailed, nStarted, last, call, chunker,
          session_state, convCall, handler, stream, file_buffer, fileCall,
          prompt_builder, promptCall, loop>>

engineVars == <<ctor, file_content, pdf, top_k, score_threshold,
                document, chunks>>

searchVars == <<engineVars, model, index, modelLoads, indexBuilds,
                createCalls, embedCalls, backendFailed, nStarted, last, call>>
conversationVars == <<session_state, convCall>>
streamVars == <<handler, stream>>

fileVars == <<file_buffer, fileCall>>
promptVars == <<prompt_builder, promptCall>>
appVars == <<fileVars, promptVars, loop>>

\* what ContextSearch does not touch
otherVars == <<chunker, conversationVars, streamVars, appVars>>

UnsetModel == [state |-> "unset", id |-> 0]
NoneModel == [state |-> "none", id |-> 0]
UnsetIndex == [state |-> "unset", id |-> 0, ntotal |-> 0]
NoneIndex == [state |-> "none", id |-> 0, ntotal |-> 0]

IdleCall ==
    [pc |-> "idle", q |-> <<>>, k |-> NoTopK, built |-> NoneIndex,
     failedBefore |-> FALSE, buildFailed |-> FALSE]

NoLast ==
    [n |-> 0, q |-> <<>>, outcome |-> "none", ret |-> <<>>, hits |-> <<>>,
     failedBefore |-> FALSE, buildFailed |-> FALSE]

IdleChunker ==
    [pc |-> "idle", text |-> <<>>, maxw |-> 80, minw |-> 30, ov |-> 10,
     paras |-> <<>>, para |-> <<>>, sents |-> <<>>, cur |-> <<>>, len |-> 0,
     out |-> <<>>]

\* A fresh process: no engine constructed
InitContextSearch ==
    /\ ctor = "none"
    /\ file_content = [kind |-> "none", data |-> <<>>]
    /\ pdf = "untried"
    /\ top_k = DefaultTopK
    /\ score_threshold = 5
    /\ document = <<>>
    /\ chunks = <<>>
    /\ model = UnsetModel
    /\ index = UnsetIndex
    /\ modelLoads = 0
    /\ indexBuilds = 0
    /\ createCalls = 0
    /\ embedCalls = 0
    /\ backendFailed = FALSE
    /\ nStarted = 0
    /\ last = NoLast
    /\ call = [t \in Callers |-> IdleCall]

\* A session without the key "messages"; no ConversationManager call yet
FreshSession == [has |-> FALSE, messages |-> <<>>]
NoConvCall ==
    [seq |-> 0, op |-> "none", role |-> "", content |-> <<>>,
     max_messages |-> 0, ret |-> <<>>]

\* StreamingResponseHandler.__init__
NewHandler ==
    [main_text |-> <<>>, reasoning_text |-> <<>>, in_reasoning |-> FALSE,
     current_tag |-> "None", buffer |-> <<>>]
NoStream == [text |-> <<>>, pos |-> 0, pc |-> "idle", cutInTag |-> FALSE]

\* A session without the key "file_metadata"; no upload seen
NoFile == [present |-> FALSE, name |-> <<>>, type |-> "None", data |-> <<>>]
\* {"name": None, "size": None}: size -1 stands for None, which no size equals
NoMetadata == [name |-> <<>>, size |-> -1]
FreshFileBuffer == [has |-> FALSE, metadata |-> NoMetadata, content |-> <<>>]
NoFileCall == [seq |-> 0, op |-> "none", file |-> NoFile, ret |-> <<>>]

\* No PromptBuilder made, no build_prompt call yet
NoPromptBuilder ==
    [made |-> FALSE, context_prompt |-> <<>>, context_search |-> FALSE]
NoPromptCall ==
    [seq |-> 0, outcome |-> "none", user_prompt |-> <<>>, history |-> <<>>,
     uploaded_file |-> NoFile, file_content |-> <<>>,
     include_full_doc |-> FALSE, prompt |-> <<>>]

\* The stream loop of chat_assist.py before its response arrives
IdleLoop ==
    [pc |-> "idle", response |-> <<>>, chunks |-> <<>>, main_text |-> <<>>,
     thinking_text |-> <<>>, in_think |-> FALSE]

InitApp ==
    /\ file_buffer = FreshFileBuffer /\ fileCall = NoFileCall
    /\ prompt_builder = NoPromptBuilder /\ promptCall = NoPromptCall
    /\ loop = IdleLoop

Init ==
    /\ InitContextSearch
    /\ InitApp
    /\ chunker = IdleChunker
    /\ session_state = FreshSession /\ convCall = NoConvCall
    /\ handler = NewHandler /\ stream = NoStream

\* ------------------------------------------------------------------------
\* ContextSearch.__init__
\* ------------------------------------------------------------------------
\* bytes.decode("utf-8")
DecodeUtf8(b) ==
    IF \E i \in 1..Len(b) : b[i] = BadByte
    THEN [ok |-> FALSE, text |-> <<>>]
    ELSE [ok |-> TRUE, text |-> b]

\* _load_document without the PDF attempt: bytes that are not UTF-8 raise
\* at once.  (Variant used to show what C7 rests on.)
LoadDocument_NoPdf(fc, out) ==
    IF fc.kind = "none" THEN [ok |-> TRUE, text |-> <<>>, pdf |-> "untried"]
    ELSE IF fc.kind = "bytes" THEN
        IF DecodeUtf8(fc.data).ok
        THEN [ok |-> TRUE, text |-> DecodeUtf8(fc.data).text, pdf |-> "untried"]
        ELSE [ok |-> FALSE, text |-> <<>>, pdf |-> "untried"]
    ELSE IF fc.kind = "str"
    THEN [ok |-> TRUE, text |-> fc.data, pdf |-> "untried"]
    ELSE [ok |-> FALSE, text |-> <<>>, pdf |-> "untried"]

\* _load_document: ok = FALSE stands for the ValueError it raises; out is
\* what pdfplumber makes of bytes that are not UTF-8.
LoadDocument(fc, out) ==
    IF fc.kind = "none" THEN [ok |-> TRUE, text |-> <<>>, pdf |-> "untried"]
    ELSE IF fc.kind = "bytes" THEN
        IF DecodeUtf8(fc.data).ok
        THEN [ok |-> TRUE, text |-> DecodeUtf8(fc.data).text, pdf |-> "untried"]
        ELSE IF out.ok
        THEN [ok |-> TRUE, text |-> out.text, pdf |-> "extracted"]
        ELSE [ok |-> FALSE, text |-> <<>>, pdf |-> "failed"]
    ELSE IF fc.kind = "str"
    THEN [ok |-> TRUE, text |-> fc.data, pdf |-> "untried"]
    ELSE [ok |-> FALSE, text |-> <<>>, pdf |-> "untried"]

\* _create_chunks
CreateChunks(doc) ==
    IF Strip(doc) = <<>> THEN <<>>
    ELSE create_contextual_chunks(doc, 80, 10, 10)

\* __init__ without its except clause: the ValueError reaches the caller.
\* (Variant used to show what C6 rests on.)
CtorResult_Reraise(fc, out) ==
    LET d == LoadDocument(fc, out)
    IN  IF d.ok
        THEN [outcome |-> "returned", document |-> d.text,
              chunks |-> CreateChunks(d.text),
              model |-> NoneModel, index |-> NoneIndex, pdf |-> d.pdf]
        ELSE [outcome |-> "raised", document |-> <<>>, chunks |-> <<>>,
              model |-> UnsetModel, index |-> UnsetIndex, pdf |-> d.pdf]

\* __init__: the except clause catches the ValueError of _load_document and
\* assigns document and chunks only.
CtorResult(fc, out) ==
    LET d == LoadDocument(fc, out)
    IN  IF d.ok
        THEN [outcome |-> "returned", document |-> d.text,
              chunks |-> CreateChunks(d.text),
              model |-> NoneModel, index |-> NoneIndex, pdf |-> d.pdf]
        ELSE [outcome |-> "returned", document |-> <<>>, chunks |-> <<>>,
              model |-> UnsetModel, index |-> UnsetIndex, pdf |-> d.pdf]

Construct(fc, k, thr, out) ==
    /\ ctor = "none"
    /\ \E r \in {CtorResult(fc, out)} :
           /\ ctor' = r.outcome
           /\ file_content' = fc
           /\ pdf' = r.pdf
           /\ top_k' = k
           /\ score_threshold' = thr
           /\ document' = r.document
           /\ chunks' = r.chunks
           /\ model' = r.model
           /\ index' = r.index
    /\ UNCHANGED <<otherVars, modelLoads, indexBuilds, createCalls,
                   embedCalls, backendFailed, nStarted, last, call>>

\* ------------------------------------------------------------------------
\* The embedding backend and the index, as the code uses them
\* ------------------------------------------------------------------------
\* What the backend does during one call: whether SentenceTransformer(...)
\* succeeds, whether encoding the chunk batches succeeds, and whether
\* encoding the query and searching succeed.
\* A call ends at its first failure, so at most one failure shows per call.
BackendEnv ==
    {e \in [loadOk : BOOLEAN, encodeOk : BOOLEAN, queryOk : BOOLEAN] :
        Cardinality({f \in {"loadOk", "encodeOk", "queryOk"} : ~e[f]}) <= 1}

\* Similarity of every chunk to the query, and the order in which faiss
\* reports the chunks: by descending score, ties in any order.
ScoreMaps(n) == [0..(n - 1) -> Scores]
Orders(sc, n) ==
    {o \in [1..n -> 0..(n - 1)] :
        /\ \A a, b \in 1..n : a # b => o[a] # o[b]
        /\ \A a \in 1..(n - 1) : sc[o[a]] >= sc[o[a + 1]]}

\* "if self.model is None: self.model = SentenceTransformer(...)": ok = FALSE
\* is the exception the enclosing try catches.
LoadModel(mdl, env, loads) ==
    IF mdl.state = "unset"
    THEN [ok |-> FALSE, model |-> mdl, loaded |-> 0, backend |-> FALSE]
    ELSE IF mdl.state = "obj"
    THEN [ok |-> TRUE, model |-> mdl, loaded |-> 0, backend |-> FALSE]
    ELSE IF env.loadOk
    THEN [ok |-> TRUE, model |-> [state |-> "obj", id |-> loads + 1],
          loaded |-> 1, backend |-> FALSE]
    ELSE [ok |-> FALSE, model |-> mdl, loaded |-> 0, backend |-> TRUE]

\* A batch loop that embeds full batches only and loses the last, partial
\* one.  (Variant used to show what C9 rests on.)
RECURSIVE EmbeddedFrom_FullBatchesOnly(_, _)
EmbeddedFrom_FullBatchesOnly(n, i) ==
    IF i + batch_size > n THEN 0
    ELSE batch_size + EmbeddedFrom_FullBatchesOnly(n, i + batch_size)

\* The batch loop "for i in range(0, len(chunks), batch_size)": the number
\* of vectors embedded from position i on, and the number of encode calls.
RECURSIVE EmbeddedFrom(_, _)
EmbeddedFrom(n, i) ==
    IF i >= n THEN 0
    ELSE (IF i + batch_size <= n THEN batch_size ELSE n - i)
             + EmbeddedFrom(n, i + batch_size)

RECURSIVE BatchesFrom(_, _)
BatchesFrom(n, i) == IF i >= n THEN 0 ELSE 1 + BatchesFrom(n, i + batch_size)

\* An index build that hands out the index although a batch call failed.
\* (Variant used to show what C5 rests on.)
EncodeAndBuild_KeepPartial(ch, env, builds) ==
    [ok |-> env.encodeOk,
     result |-> [state |-> "obj", id |-> builds + 1,
                 ntotal |-> IF env.encodeOk THEN EmbeddedFrom(Len(ch), 0)
                            ELSE 0],
     built |-> 1,
     encodes |-> IF env.encodeOk THEN BatchesFrom(Len(ch), 0) ELSE 1]

\* Batch embedding, np.vstack, normalisation, IndexFlatIP(dim), index.add.
EncodeAndBuild(ch, env, builds) ==
    IF env.encodeOk
    THEN [ok |-> TRUE,
          result |-> [state |-> "obj", id |-> builds + 1,
                      ntotal |-> EmbeddedFrom(Len(ch), 0)],
          built |-> 1, encodes |-> BatchesFrom(Len(ch), 0)]
    ELSE [ok |-> FALSE, result |-> NoneIndex, built |-> 0, encodes |-> 1]

\* _create_faiss_index returning an empty index, not None, when there are
\* no chunks.  (Variant used to show what C8 rests on.)
CreateFaissIndex_EmptyIndex(ch, mdl, env, loads, builds) ==
    IF ch = <<>>
    THEN [model |-> mdl,
          result |-> [state |-> "obj", id |-> builds + 1, ntotal |-> 0],
          loaded |-> 0, built |-> 1, encodes |-> 0, failed |-> FALSE]
    ELSE LET lm == LoadModel(mdl, env, loads)
             eb == EncodeAndBuild(ch, env, builds)
         IN  IF ~lm.ok
             THEN [model |-> mdl, result |-> NoneIndex, loaded |-> 0,
                   built |-> 0, encodes |-> 0, failed |-> lm.backend]
             ELSE [model |-> lm.model, result |-> eb.result,
                   loaded |-> lm.loaded, built |-> eb.built,
                   encodes |-> eb.encodes, failed |-> ~eb.ok]

\* _create_faiss_index
CreateFaissIndex(ch, mdl, env, loads, builds) ==
    IF ch = <<>>
    THEN [model |-> mdl, result |-> NoneIndex, loaded |-> 0, built |-> 0,
          encodes |-> 0, failed |-> FALSE]
    ELSE LET lm == LoadModel(mdl, env, loads)
             eb == EncodeAndBuild(ch, env, builds)
         IN  IF ~lm.ok
             THEN [model |-> mdl, result |-> NoneIndex, loaded |-> 0,
                   built |-> 0, encodes |-> 0, failed |-> lm.backend]
             ELSE [model |-> lm.model, result |-> eb.result,
                   loaded |-> lm.loaded, built |-> eb.built,
                   encodes |-> eb.encodes, failed |-> ~eb.ok]

\* index.search(q_embedding, top_k): top_k rows, padded with id -1 and the
\* lowest float when the index holds fewer vectors.
FaissSearch(idx, kk, sc, ord) ==
    [p \in 1..kk |->
        IF p <= idx.ntotal /\ p <= Len(ord)
        THEN [score |-> sc[ord[p]], idx |-> ord[p]]
        ELSE [score |-> NegFltMax, idx |-> -1]]

\* self.chunks[idx], with Python's negative indexing
ChunkAt(ch, i) == IF i >= 0 THEN ch[i + 1] ELSE ch[Len(ch) + i + 1]

\* The result loop without the threshold test.  (Variant used to show what
\* C10 rests on.)
RECURSIVE FilterHits_NoThreshold(_, _, _)
FilterHits_NoThreshold(hits, ch, thr) ==
    IF hits = <<>> THEN <<>>
    ELSE <<[score |-> Head(hits).score, chunk |-> ChunkAt(ch, Head(hits).idx),
            index |-> Head(hits).idx]>>
             \o FilterHits_NoThreshold(Tail(hits), ch, thr)

\* The result loop with "score > self.score_threshold": a row whose score
\* equals the threshold is lost.  (Variant used to show what C13 rests on.)
RECURSIVE FilterHits_StrictThreshold(_, _, _)
FilterHits_StrictThreshold(hits, ch, thr) ==
    IF hits = <<>> THEN <<>>
    ELSE LET h == Head(hits)
             rest == FilterHits_StrictThreshold(Tail(hits), ch, thr)
         IN  IF h.score > thr
             THEN <<[score |-> h.score, chunk |-> ChunkAt(ch, h.idx),
                     index |-> h.idx]>> \o rest
             ELSE rest

\* The loop over zip(scores[0], indices[0]) with its threshold test
RECURSIVE FilterHits(_, _, _)
FilterHits(hits, ch, thr) ==
    IF hits = <<>> THEN <<>>
    ELSE LET h == Head(hits)
             rest == FilterHits(Tail(hits), ch, thr)
         IN  IF h.score >= thr
             THEN <<[score |-> h.score, chunk |-> ChunkAt(ch, h.idx),
                     index |-> h.idx]>> \o rest
             ELSE rest

\* results.sort(key=score) without reverse=True: stable, ascending.
\* (Variant used to show what C11 rests on.)
RECURSIVE InsertByScore_Ascending(_, _)
InsertByScore_Ascending(x, sorted) ==
    IF sorted = <<>> THEN <<x>>
    ELSE IF Head(sorted).score <= x.score
    THEN <<Head(sorted)>> \o InsertByScore_Ascending(x, Tail(sorted))
    ELSE <<x>> \o sorted

\* results.sort(key=score, reverse=True): stable, descending
RECURSIVE InsertByScore(_, _)
InsertByScore(x, sorted) ==
    IF sorted = <<>> THEN <<x>>
    ELSE IF Head(sorted).score >= x.score
    THEN <<Head(sorted)>> \o InsertByScore(x, Tail(sorted))
    ELSE <<x>> \o sorted

RECURSIVE SortByScore(_)
SortByScore(rs) ==
    IF rs = <<>> THEN <<>>
    ELSE InsertByScore(rs[Len(rs)], SortByScore(SubSeq(rs, 1, Len(rs) - 1)))

\* "if not query": a whitespace-only query counts as a query.  (Variant
\* used to show what C3 rests on.)
IsBlankQuery_EmptyOnly(q) == q = <<>>

\* "if not query.strip()"
IsBlankQuery(q) == Strip(q) = <<>>

\* The try block of query: an exception anywhere gives the empty list.
SearchPart(ch, mdl, idx, kk, thr, env, sc, ord, loads) ==
    LET lm == LoadModel(mdl, env, loads)
        hits == FaissSearch(idx, kk, sc, ord)
    IN  IF ~lm.ok
        THEN [model |-> mdl, ret |-> <<>>, hits |-> <<>>, loaded |-> 0,
              encodes |-> 0]
        ELSE IF ~env.queryOk \/ idx.state # "obj" \/ kk <= 0
                \/ \E p \in 1..kk : hits[p].score >= thr /\ hits[p].idx >= Len(ch)
        THEN [model |-> lm.model, ret |-> <<>>, hits |-> <<>>,
              loaded |-> lm.loaded, encodes |-> 1]
        ELSE [model |-> lm.model,
              ret |-> SortByScore(FilterHits(hits, ch, thr)), hits |-> hits,
              loaded |-> lm.loaded, encodes |-> 1]

\* _ensure_index without its "is None" test: every call builds anew.
\* (Variant used to show what C4 rests on.)
EnsureIndex_AlwaysBuild(ch, mdl, idx, env, loads, builds) ==
    IF idx.state = "unset"
    THEN [raised |-> TRUE, model |-> mdl, index |-> idx, loaded |-> 0,
          built |-> 0, encodes |-> 0, creates |-> 0, failed |-> FALSE]
    ELSE LET c == CreateFaissIndex(ch, mdl, env, loads, builds)
         IN  [raised |-> FALSE, model |-> c.model, index |-> c.result,
              loaded |-> c.loaded, built |-> c.built, encodes |-> c.encodes,
              creates |-> 1, failed |-> c.failed]

\* _ensure_index followed by the availability test of query.
\* raised = TRUE is the AttributeError of reading an attribute never set.
EnsureIndex(ch, mdl, idx, env, loads, builds) ==
    IF idx.state = "unset"
    THEN [raised |-> TRUE, model |-> mdl, index |-> idx, loaded |-> 0,
          built |-> 0, encodes |-> 0, creates |-> 0, failed |-> FALSE]
    ELSE IF idx.state = "none"
    THEN LET c == CreateFaissIndex(ch, mdl, env, loads, builds)
         IN  [raised |-> FALSE, model |-> c.model, index |-> c.result,
              loaded |-> c.loaded, built |-> c.built, encodes |-> c.encodes,
              creates |-> 1, failed |-> c.failed]
    ELSE [raised |-> FALSE, model |-> mdl, index |-> idx, loaded |-> 0,
          built |-> 0, encodes |-> 0, creates |-> 0, failed |-> FALSE]

\* ContextSearch.query as one call
QueryResult(ch, mdl, idx, dflt, thr, loads, builds, q, k, env, sc, ord) ==
    LET e == EnsureIndex(ch, mdl, idx, env, loads, builds)
        kk == IF k = NoTopK THEN dflt ELSE k
        s == SearchPart(ch, e.model, e.index, kk, thr, env, sc, ord,
                        loads + e.loaded)
    IN  IF IsBlankQuery(q)
        THEN [outcome |-> "returned", ret |-> <<>>, hits |-> <<>>, model |-> mdl,
              index |-> idx, loaded |-> 0, built |-> 0, encodes |-> 0,
              creates |-> 0, failed |-> FALSE]
        ELSE IF e.raised
        THEN [outcome |-> "raised", ret |-> <<>>, hits |-> <<>>, model |-> mdl,
              index |-> idx, loaded |-> 0, built |-> 0, encodes |-> 0,
              creates |-> 0, failed |-> FALSE]
        ELSE IF e.index.state # "obj" \/ ch = <<>>
        THEN [outcome |-> "returned", ret |-> <<>>, hits |-> <<>>,
              model |-> e.model,
              index |-> e.index, loaded |-> e.loaded, built |-> e.built,
              encodes |-> e.encodes, creates |-> e.creates,
              failed |-> e.failed]
        ELSE [outcome |-> "returned", ret |-> s.ret, hits |-> s.hits,
              model |-> s.model,
              index |-> e.index, loaded |-> e.loaded + s.loaded,
              built |-> e.built, encodes |-> e.encodes + s.encodes,
              creates |-> e.creates, failed |-> e.failed]

\* ------------------------------------------------------------------------
\* Sequential use: one query call at a time
\* ------------------------------------------------------------------------
AllIdle == \A t \in Callers : call[t].pc = "idle"

\* query that keeps its top_k argument, "self.top_k = top_k".  (Variant
\* used to show what C19 rests on.)
Query_StoresTopK(q, k, env, sc, ord) ==
    /\ ctor = "returned"
    /\ nStarted < MaxQueries
    /\ AllIdle
    /\ \E r \in {QueryResult(chunks, model, index, top_k, score_threshold,
                            modelLoads, indexBuilds, q, k, env, sc, ord)} :
           /\ model' = r.model
           /\ index' = r.index
           /\ modelLoads' = modelLoads + r.loaded
           /\ indexBuilds' = indexBuilds + r.built
           /\ createCalls' = createCalls + r.creates
           /\ embedCalls' = embedCalls + r.encodes
           /\ backendFailed' = (backendFailed \/ r.failed)
           /\ last' = [n |-> nStarted + 1, q |-> q,
                       outcome |-> r.outcome, ret |-> r.ret, hits |-> r.hits,
                       failedBefore |-> backendFailed,
                       buildFailed |-> r.failed]
    /\ nStarted' = nStarted + 1
    /\ top_k' = (IF k = NoTopK THEN top_k ELSE k)
    /\ UNCHANGED <<otherVars, ctor, file_content, pdf, score_threshold,
                   document, chunks, call>>

Query(q, k, env, sc, ord) ==
    /\ ctor = "returned"
    /\ nStarted < MaxQueries
    /\ AllIdle
    /\ \E r \in {QueryResult(chunks, model, index, top_k, score_threshold,
                            modelLoads, indexBuilds, q, k, env, sc, ord)} :
           /\ model' = r.model
           /\ index' = r.index
           /\ modelLoads' = modelLoads + r.loaded
           /\ indexBuilds' = indexBuilds + r.built
           /\ createCalls' = createCalls + r.creates
           /\ embedCalls' = embedCalls + r.encodes
           /\ backendFailed' = (backendFailed \/ r.failed)
           /\ last' = [n |-> nStarted + 1, q |-> q,
                       outcome |-> r.outcome, ret |-> r.ret, hits |-> r.hits,
                       failedBefore |-> backendFailed,
                       buildFailed |-> r.failed]
    /\ nStarted' = nStarted + 1
    /\ UNCHANGED <<otherVars, engineVars, call>>

CtorTopKs == {1, DefaultTopK}

\* The scores and the order of the hits matter to a non-blank query only;
\* a call in which a failure is injected but not reached behaves as some
\* call without failure, so its scores are not enumerated again.
NoScores == [i \in 0..(Len(chunks) - 1) |-> 2]
NoOrder == [p \in 1..Len(chunks) |-> p - 1]
AllOk == [loadOk |-> TRUE, encodeOk |-> TRUE, queryOk |-> TRUE]

Next ==
    \/ \E fc \in FileContents, k \in CtorTopKs, thr \in Thresholds,
          out \in PdfOutcomes : Construct(fc, k, thr, out)
    \/ \E q \in Queries :
          IF Strip(q) = <<>>
          THEN \E k \in TopKArgs : Query(q, k, AllOk, NoScores, NoOrder)
          ELSE \E env \in BackendEnv :
                  IF env # AllOk
                  THEN \E k \in TopKArgs : Query(q, k, env, NoScores, NoOrder)
                  ELSE \E sc \in ScoreMaps(Len(chunks)) :
                          \E ord \in Orders(sc, Len(chunks)) :
                              \E k \in TopKArgs : Query(q, k, env, sc, ord)

Spec == Init /\ [][Next]_vars

\* ------------------------------------------------------------------------
\* Concurrent use: each caller runs query in steps that interleave at the
\* reads and writes of self.index and self.model.  The code takes no lock.
\* ------------------------------------------------------------------------
Goto(t, pc) == [call EXCEPT ![t].pc = pc]

Complete(t, outcome, ret, hits) ==
    /\ last' = [n |-> last.n + 1, q |-> call[t].q, outcome |-> outcome,
                ret |-> ret, hits |-> hits, failedBefore |-> call[t].failedBefore,
                buildFailed |-> call[t].buildFailed]
    /\ call' = [call EXCEPT ![t] = IdleCall]

\* query is entered: "if not query.strip(): return []"
Begin(t, q, k) ==
    /\ ctor = "returned"
    /\ nStarted < MaxQueries
    /\ call[t].pc = "idle"
    /\ nStarted' = nStarted + 1
    /\ IF IsBlankQuery(q)
       THEN /\ last' = [n |-> last.n + 1, q |-> q, outcome |-> "returned",
                        ret |-> <<>>, hits |-> <<>>,
                        failedBefore |-> backendFailed,
                        buildFailed |-> FALSE]
            /\ call' = call
       ELSE /\ call' = [call EXCEPT ![t] =
                            [pc |-> "ensure", q |-> q, k |-> k,
                             built |-> NoneIndex,
                             failedBefore |-> backendFailed,
                             buildFailed |-> FALSE]]
            /\ last' = last
    /\ UNCHANGED <<otherVars, engineVars, model, index, modelLoads, indexBuilds,
                   createCalls, embedCalls, backendFailed>>

\* _ensure_index reads self.index; _create_faiss_index tests self.chunks
EnsureCheck(t) ==
    /\ call[t].pc = "ensure"
    /\ IF index.state = "unset"
       THEN /\ Complete(t, "raised", <<>>, <<>>)
            /\ createCalls' = createCalls
       ELSE IF index.state = "none"
       THEN /\ createCalls' = createCalls + 1
            /\ call' = Goto(t, IF chunks = <<>> THEN "assign" ELSE "model")
            /\ last' = last
       ELSE /\ call' = Goto(t, "gate")
            /\ UNCHANGED <<last, createCalls>>
    /\ UNCHANGED <<otherVars, engineVars, model, index, modelLoads, indexBuilds,
                   embedCalls, backendFailed, nStarted>>

\* _create_faiss_index reads "self.model is None"
CheckModel(t) ==
    /\ call[t].pc = "model"
    /\ call' = Goto(t, IF model.state = "none" THEN "load"
                       ELSE IF model.state = "obj" THEN "encode"
                       ELSE "assign")
    /\ UNCHANGED <<otherVars, engineVars, model, index, modelLoads, indexBuilds,
                   createCalls, embedCalls, backendFailed, nStarted, last>>

\* self.model = SentenceTransformer(...)
LoadStep(t, env) ==
    /\ call[t].pc = "load"
    /\ \E lm \in {LoadModel(NoneModel, env, modelLoads)} :
           /\ model' = IF lm.ok THEN lm.model ELSE model
           /\ modelLoads' = modelLoads + lm.loaded
           /\ backendFailed' = (backendFailed \/ ~lm.ok)
           /\ call' = [call EXCEPT ![t].pc = IF lm.ok THEN "encode" ELSE "assign",
                                   ![t].buildFailed = ~lm.ok]
    /\ UNCHANGED <<otherVars, engineVars, index, indexBuilds, createCalls, embedCalls,
                   nStarted, last>>

\* the batch loop and the construction of the index, up to "return index"
EncodeStep(t, env) ==
    /\ call[t].pc = "encode"
    /\ \E eb \in {EncodeAndBuild(chunks, env, indexBuilds)} :
           /\ indexBuilds' = indexBuilds + eb.built
           /\ embedCalls' = embedCalls + eb.encodes
           /\ backendFailed' = (backendFailed \/ ~eb.ok)
           /\ call' = [call EXCEPT ![t].pc = "assign",
                                   ![t].built = eb.result,
                                   ![t].buildFailed = ~eb.ok]
    /\ UNCHANGED <<otherVars, engineVars, model, index, modelLoads, createCalls,
                   nStarted, last>>

\* self.index = <the value _create_faiss_index returned>
Assign(t) ==
    /\ call[t].pc = "assign"
    /\ index' = call[t].built
    /\ call' = Goto(t, "gate")
    /\ UNCHANGED <<otherVars, engineVars, model, modelLoads, indexBuilds, createCalls,
                   embedCalls, backendFailed, nStarted, last>>

\* "if not self.index or not self.chunks: return []"
Gate(t) ==
    /\ call[t].pc = "gate"
    /\ IF index.state # "obj" \/ chunks = <<>>
       THEN Complete(t, "returned", <<>>, <<>>)
       ELSE call' = Goto(t, "search") /\ last' = last
    /\ UNCHANGED <<otherVars, engineVars, model, index, modelLoads, indexBuilds,
                   createCalls, embedCalls, backendFailed, nStarted>>

\* the try block of query
Search(t, env, sc, ord) ==
    /\ call[t].pc = "search"
    /\ \E s \in {SearchPart(chunks, model, index,
                            IF call[t].k = NoTopK THEN top_k ELSE call[t].k,
                            score_threshold, env, sc, ord, modelLoads)} :
           /\ Complete(t, "returned", s.ret, s.hits)
           /\ model' = s.model
           /\ modelLoads' = modelLoads + s.loaded
           /\ embedCalls' = embedCalls + s.encodes
    /\ UNCHANGED <<otherVars, engineVars, index, indexBuilds, createCalls,
                   backendFailed, nStarted>>

LoadFails == [loadOk |-> FALSE, encodeOk |-> TRUE, queryOk |-> TRUE]
EncodeFails == [loadOk |-> TRUE, encodeOk |-> FALSE, queryOk |-> TRUE]
QueryFails == [loadOk |-> TRUE, encodeOk |-> TRUE, queryOk |-> FALSE]

NextConc ==
    \/ \E fc \in FileContents, k \in CtorTopKs, thr \in Thresholds,
          out \in PdfOutcomes : Construct(fc, k, thr, out)
    \/ \E t \in Callers, q \in Queries, k \in TopKArgs : Begin(t, q, k)
    \/ \E t \in Callers : EnsureCheck(t)
    \/ \E t \in Callers : CheckModel(t)
    \/ \E t \in Callers, env \in {AllOk, LoadFails} : LoadStep(t, env)
    \/ \E t \in Callers, env \in {AllOk, EncodeFails} : EncodeStep(t, env)
    \/ \E t \in Callers : Assign(t)
    \/ \E t \in Callers : Gate(t)
    \/ \E t \in Callers :
          \/ Search(t, QueryFails, NoScores, NoOrder)
          \/ \E sc \in ScoreMaps(Len(chunks)) :
                \E ord \in Orders(sc, Len(chunks)) : Search(t, AllOk, sc, ord)

SpecConc == Init /\ [][NextConc]_vars

\* ------------------------------------------------------------------------
\* create_contextual_chunks, one loop pass at a time
\* ------------------------------------------------------------------------
\* The call with its arguments bound, before its first statement
ChunkCalls ==
    {[IdleChunker EXCEPT !.pc = "start", !.text = t, !.maxw = mx,
                         !.minw = mn, !.ov = o] :
        t \in ChunkTexts, mx \in ChunkMaxWords, mn \in ChunkMinWords,
        o \in ChunkOverlaps}

InitChunk ==
    /\ InitContextSearch
    /\ InitApp
    /\ chunker \in ChunkCalls
    /\ session_state = FreshSession /\ convCall = NoConvCall
    /\ handler = NewHandler /\ stream = NoStream

\* paragraphs = split_into_paragraphs(text); all_chunks = []
ChunkStart ==
    /\ chunker.pc = "start"
    /\ chunker' = [chunker EXCEPT !.pc = "paras",
                                  !.paras = split_into_paragraphs(chunker.text),
                                  !.out = <<>>]
    /\ UNCHANGED <<appVars, searchVars, conversationVars, streamVars>>

\* "for paragraph in paragraphs": the next paragraph is split into
\* sentences, current_chunk and current_length start anew
NextParagraph ==
    /\ chunker.pc = "paras"
    /\ chunker.paras # <<>>
    /\ chunker' =
          [chunker EXCEPT !.pc = "sents",
                          !.para = Head(chunker.paras),
                          !.paras = Tail(chunker.paras),
                          !.sents = split_paragraph_into_sentences(Head(chunker.paras)),
                          !.cur = <<>>,
                          !.len = 0]
    /\ UNCHANGED <<appVars, searchVars, conversationVars, streamVars>>

\* "for sent in sentences": one pass of the body
AddSentence ==
    /\ chunker.pc = "sents"
    /\ chunker.sents # <<>>
    /\ \E r \in {SentenceStep(Head(chunker.sents), chunker.cur, chunker.len,
                              chunker.out, chunker.maxw, chunker.ov)} :
           chunker' = [chunker EXCEPT !.sents = Tail(chunker.sents),
                                      !.cur = r.cur, !.len = r.len,
                                      !.out = r.out]
    /\ UNCHANGED <<appVars, searchVars, conversationVars, streamVars>>

\* The sentences of the paragraph are used up: the remainder is pushed
\* if it is not too small
EndParagraph ==
    /\ chunker.pc = "sents"
    /\ chunker.sents = <<>>
    /\ chunker' = [chunker EXCEPT !.pc = "paras",
                                  !.out = ParagraphEnd(chunker.cur, chunker.len,
                                                       chunker.out, chunker.minw)]
    /\ UNCHANGED <<appVars, searchVars, conversationVars, streamVars>>

\* return all_chunks
ChunkReturn ==
    /\ chunker.pc = "paras"
    /\ chunker.paras = <<>>
    /\ chunker' = [chunker EXCEPT !.pc = "done"]
    /\ UNCHANGED <<appVars, searchVars, conversationVars, streamVars>>

NextChunk ==
    \/ ChunkStart
    \/ NextParagraph
    \/ AddSentence
    \/ EndParagraph
    \/ ChunkReturn

SpecChunk == InitChunk /\ [][NextChunk]_vars

\* ------------------------------------------------------------------------
\* ConversationManager (utils/conversation.py)
\* ------------------------------------------------------------------------
Roles == {"user", "assistant"}
RoleText(role) ==
    IF role = "user" THEN <<"u", "s", "e", "r">>
    ELSE <<"a", "s", "s", "i", "s", "t", "a", "n", "t">>
Contents == {<<"h", "i">>, <<"o", NL, "k">>}
DefaultMaxMessages == 6
MaxMessagesArgs == 0..(MaxMessages + 1) \cup {DefaultMaxMessages}

\* f"{msg['role']}: {msg['content']}"
RenderMessage(msg) == RoleText(msg.role) \o <<":", " ">> \o msg.content

\* "\n".join(lines)
RECURSIVE JoinLines(_)
JoinLines(lines) ==
    IF lines = <<>> THEN <<>>
    ELSE IF Len(lines) = 1 THEN lines[1]
    ELSE lines[1] \o <<NL>> \o JoinLines(Tail(lines))

initialize_session(ss) ==
    IF ~ss.has THEN [has |-> TRUE, messages |-> <<>>] ELSE ss

\* get_history that takes the first max_messages messages, messages[:n].
\* (Variant used to show what C17 rests on.)
get_history_FirstN(ss, max_messages) ==
    IF ~ss.has \/ ss.messages = <<>> THEN <<>>
    ELSE LET messages == IF max_messages > 0
                         THEN SubSeq(ss.messages, 1,
                                     IF max_messages < Len(ss.messages)
                                     THEN max_messages ELSE Len(ss.messages))
                         ELSE ss.messages
         IN  JoinLines([i \in 1..Len(messages) |-> RenderMessage(messages[i])])

get_history(ss, max_messages) ==
    IF ~ss.has \/ ss.messages = <<>> THEN <<>>
    ELSE LET messages == IF max_messages > 0
                         THEN LastN(ss.messages, max_messages)
                         ELSE ss.messages
         IN  JoinLines([i \in 1..Len(messages) |-> RenderMessage(messages[i])])

\* add_message that puts the new message first, messages.insert(0, msg).
\* (Variant used to show what C18 rests on.)
add_message_Prepend(ss, role, content) ==
    LET s1 == initialize_session(ss)
    IN  [s1 EXCEPT !.messages =
            <<[role |-> role, content |-> content]>> \o s1.messages]

add_message(ss, role, content) ==
    LET s1 == initialize_session(ss)
    IN  [s1 EXCEPT !.messages =
            Append(s1.messages, [role |-> role, content |-> content])]

clear_history(ss) == [has |-> TRUE, messages |-> <<>>]

ConvCalled(op, role, content, max_messages, ret) ==
    convCall' = [seq |-> 1 - convCall.seq, op |-> op, role |-> role,
                 content |-> content, max_messages |-> max_messages,
                 ret |-> ret]

InitializeSession ==
    /\ session_state' = initialize_session(session_state)
    /\ ConvCalled("initialize_session", "", <<>>, 0, <<>>)
    /\ UNCHANGED <<appVars, searchVars, chunker, streamVars>>

GetHistory(max_messages) ==
    /\ ConvCalled("get_history", "", <<>>, max_messages,
                  get_history(session_state, max_messages))
    /\ UNCHANGED <<appVars, searchVars, chunker, streamVars, session_state>>

AddMessage(role, content) ==
    /\ Len(session_state.messages) < MaxMessages
    /\ session_state' = add_message(session_state, role, content)
    /\ ConvCalled("add_message", role, content, 0, <<>>)
    /\ UNCHANGED <<appVars, searchVars, chunker, streamVars>>

ClearHistory ==
    /\ session_state' = clear_history(session_state)
    /\ ConvCalled("clear_history", "", <<>>, 0, <<>>)
    /\ UNCHANGED <<appVars, searchVars, chunker, streamVars>>

NextConv ==
    \/ InitializeSession
    \/ \E m \in MaxMessagesArgs : GetHistory(m)
    \/ \E role \in Roles, content \in Contents : AddMessage(role, content)
    \/ ClearHistory

SpecConv == Init /\ [][NextConv]_vars

\* ------------------------------------------------------------------------
\* StreamingResponseHandler (utils/streaming.py).  _update_placeholder
\* shows main_text and reasoning_text and changes neither.
\* ------------------------------------------------------------------------
TagText(name) ==
    IF name = "think" THEN <<"t", "h", "i", "n", "k">>
    ELSE <<"t", "h", "o", "u", "g", "h", "t">>
OpeningTag(name) == <<"<">> \o TagText(name) \o <<">">>
\* f"</{self.current_tag}>"
ClosingTag(name) == <<"<", "/">> \o TagText(name) \o <<">">>

\* str.find: the 0-based position of the first occurrence, or -1
Find(buf, pat) ==
    LET at == {i \in 1..(Len(buf) - Len(pat) + 1) :
                  SubSeq(buf, i, i + Len(pat) - 1) = pat}
    IN  IF at = {} THEN -1 ELSE SetMin(at) - 1

\* buf[:n] and buf[n:] for 0 <= n
Upto(buf, n) == SubSeq(buf, 1, n)
From(buf, n) == SubSeq(buf, n + 1, Len(buf))

\* The hold-back with 5 for 10: too short for "<thought>" and the closing
\* tags.  (Variant used to show what C20 rests on.)
HoldBack_Five(buf) ==
    IF Len(buf) > 5
    THEN [moved |-> Upto(buf, Len(buf) - 5), kept |-> From(buf, Len(buf) - 5)]
    ELSE [moved |-> <<>>, kept |-> buf]

\* "if len(self.buffer) > 10": buffer[:-10] is moved to the text, buffer[-10:]
\* is kept
HoldBack(buf) ==
    IF Len(buf) > 10
    THEN [moved |-> Upto(buf, Len(buf) - 10), kept |-> From(buf, Len(buf) - 10)]
    ELSE [moved |-> <<>>, kept |-> buf]

\* The loop "while self.buffer" of process_chunk
RECURSIVE ProcessBuffer(_)
ProcessBuffer(h) ==
    IF h.buffer = <<>> THEN h
    ELSE IF ~h.in_reasoning
    THEN LET think_pos == Find(h.buffer, OpeningTag("think"))
             thought_pos == Find(h.buffer, OpeningTag("thought"))
         IN  IF think_pos = -1 /\ thought_pos = -1
             THEN [h EXCEPT !.main_text = @ \o HoldBack(h.buffer).moved,
                            !.buffer = HoldBack(h.buffer).kept]
             ELSE IF think_pos # -1 /\ (thought_pos = -1 \/ think_pos < thought_pos)
             THEN ProcessBuffer(
                      [h EXCEPT !.main_text = @ \o Upto(h.buffer, think_pos),
                                !.in_reasoning = TRUE,
                                !.current_tag = "think",
                                !.buffer = From(h.buffer,
                                                think_pos + Len(OpeningTag("think")))])
             ELSE ProcessBuffer(
                      [h EXCEPT !.main_text = @ \o Upto(h.buffer, thought_pos),
                                !.in_reasoning = TRUE,
                                !.current_tag = "thought",
                                !.buffer = From(h.buffer,
                                                thought_pos + Len(OpeningTag("thought")))])
    ELSE LET closing_tag == ClosingTag(h.current_tag)
             closing_pos == Find(h.buffer, closing_tag)
         IN  IF closing_pos = -1
             THEN [h EXCEPT !.reasoning_text = @ \o HoldBack(h.buffer).moved,
                            !.buffer = HoldBack(h.buffer).kept]
             ELSE ProcessBuffer(
                      [h EXCEPT !.reasoning_text = @ \o Upto(h.buffer, closing_pos),
                                !.in_reasoning = FALSE,
                                !.buffer = From(h.buffer,
                                                closing_pos + Len(closing_tag))])

process_chunk(h, new_text) == ProcessBuffer([h EXCEPT !.buffer = @ \o new_text])

finalize(h) ==
    IF Len(h.buffer) > 0
    THEN IF h.in_reasoning
         THEN [h EXCEPT !.reasoning_text = @ \o h.buffer, !.buffer = <<>>]
         ELSE [h EXCEPT !.main_text = @ \o h.buffer, !.buffer = <<>>]
    ELSE h

\* Responses: up to MaxSegments pieces, each a tag, a character or a run of
\* filler longer than the hold-back.
Segments ==
    {<<"x">>, Rep(<<"y">>, 11)}
        \cup {OpeningTag(n) : n \in {"think", "thought"}}
        \cup {ClosingTag(n) : n \in {"think", "thought"}}
RECURSIVE Concat(_)
Concat(parts) == IF parts = <<>> THEN <<>> ELSE Head(parts) \o Concat(Tail(parts))
StreamTexts ==
    {Concat(ps) : ps \in UNION {[1..n -> Segments] : n \in 0..MaxSegments}}

\* A chunk boundary after the first p characters falls inside a tag
InsideTag(text, p) ==
    \E tag \in {OpeningTag("think"), OpeningTag("thought"),
                ClosingTag("think"), ClosingTag("thought")} :
        \E i \in 1..Len(text) :
            /\ i + Len(tag) - 1 <= Len(text)
            /\ SubSeq(text, i, i + Len(tag) - 1) = tag
            /\ i <= p /\ p < i + Len(tag) - 1

InitStream ==
    /\ InitContextSearch
    /\ InitApp
    /\ chunker = IdleChunker
    /\ session_state = FreshSession /\ convCall = NoConvCall
    /\ handler = NewHandler
    /\ stream \in {[text |-> t, pos |-> 0, pc |-> "feeding", cutInTag |-> FALSE] :
                      t \in StreamTexts}

\* process_chunk with the next n characters of the response
ProcessChunk(n) ==
    /\ stream.pc = "feeding"
    /\ stream.pos + n <= Len(stream.text)
    /\ handler' = process_chunk(handler, SubSeq(stream.text, stream.pos + 1,
                                                stream.pos + n))
    /\ stream' = [stream EXCEPT
                      !.pos = @ + n,
                      !.cutInTag = @ \/ InsideTag(stream.text, stream.pos + n)]
    /\ UNCHANGED <<appVars, searchVars, chunker, conversationVars>>

\* finalize, once the response has been fed whole
Finalize ==
    /\ stream.pc = "feeding"
    /\ stream.pos = Len(stream.text)
    /\ handler' = finalize(handler)
    /\ stream' = [stream EXCEPT !.pc = "done"]
    /\ UNCHANGED <<appVars, searchVars, chunker, conversationVars>>

NextStream ==
    \/ \E n \in 0..(11 * MaxSegments) : ProcessChunk(n)
    \/ Finalize

SpecStream == InitStream /\ [][NextStream]_vars

\* ------------------------------------------------------------------------
\* FileHandler (utils/file_handler.py)
\* ------------------------------------------------------------------------
\* Uploads: a name, the MIME type the browser gives that name, and the
\* bytes; the size is their number.
FileNames ==
    {<<"a", ".", "t", "x", "t">>, <<"n", ".", "t", "x", "t">>,
     <<"b", ".", "b", "i", "n">>, <<"c", ".", "p", "d", "f">>}
FileTypeOf(name) ==
    IF name = <<"a", ".", "t", "x", "t">> THEN "text/plain"
    ELSE IF name = <<"c", ".", "p", "d", "f">> THEN "application/pdf"
    ELSE "application/octet-stream"
FileData ==
    {<<"a">>, <<"b">>, <<BadByte>>, <<"a", "b">>, <<"b", "a">>, <<"a", BadByte>>}
UploadedFiles ==
    {[present |-> TRUE, name |-> n, type |-> FileTypeOf(n), data |-> d] :
        n \in FileNames, d \in FileData}
FileSize(f) == Len(f.data)

\* bytes.decode("cp1252", errors="replace"): byte 0xFF is the letter y with
\* diaeresis
DecodeCp1252(b) == [i \in 1..Len(b) |-> IF b[i] = BadByte THEN "ÿ" ELSE b[i]]
\* bytes.decode("utf-8", errors="replace"): an invalid byte becomes U+FFFD
DecodeUtf8Replace(b) ==
    [i \in 1..Len(b) |-> IF b[i] = BadByte THEN "U+FFFD" ELSE b[i]]

\* file_name.endswith(f".{ext}") for one of the supported extensions
HasSupportedExtension(name) ==
    Len(name) >= 4 /\ SubSeq(name, Len(name) - 3, Len(name)) = <<".", "t", "x", "t">>

\* extract_content: the bytes at hand are no PDF, so that pdfplumber raises
\* and the except clause gives ""
extract_content(f) ==
    IF ~f.present THEN <<>>
    ELSE IF f.type = "text/plain" THEN DecodeCp1252(f.data)
    ELSE IF f.type = "application/pdf" THEN <<>>
    ELSE IF HasSupportedExtension(f.name) THEN DecodeUtf8Replace(f.data)
    ELSE <<>>

\* get_buffered_content: the new buffer and the string returned
get_buffered_content(buf, f) ==
    LET b0 == IF ~buf.has
              THEN [has |-> TRUE, metadata |-> NoMetadata, content |-> <<>>]
              ELSE buf
    IN  IF ~f.present
        THEN [buffer |-> [has |-> TRUE, metadata |-> NoMetadata,
                          content |-> <<>>],
              ret |-> <<>>]
        ELSE IF b0.metadata.name # f.name \/ b0.metadata.size # FileSize(f)
        THEN [buffer |-> [has |-> TRUE,
                          metadata |-> [name |-> f.name, size |-> FileSize(f)],
                          content |-> extract_content(f)],
              ret |-> extract_content(f)]
        ELSE [buffer |-> b0, ret |-> b0.content]

GetBufferedContent(f) ==
    /\ \E r \in {get_buffered_content(file_buffer, f)} :
           /\ file_buffer' = r.buffer
           /\ fileCall' = [seq |-> 1 - fileCall.seq,
                           op |-> "get_buffered_content", file |-> f,
                           ret |-> r.ret]
    /\ UNCHANGED <<searchVars, chunker, conversationVars, streamVars,
                   promptVars, loop>>

\* extract_content called on its own, as upload_and_process does
ExtractContent(f) ==
    /\ fileCall' = [seq |-> 1 - fileCall.seq, op |-> "extract_content",
                    file |-> f, ret |-> extract_content(f)]
    /\ UNCHANGED <<searchVars, chunker, conversationVars, streamVars,
                   file_buffer, promptVars, loop>>

NextFile ==
    \/ \E f \in UploadedFiles \cup {NoFile} : GetBufferedContent(f)
    \/ \E f \in UploadedFiles \cup {NoFile} : ExtractContent(f)

SpecFile == Init /\ [][NextFile]_vars

\* ------------------------------------------------------------------------
\* PromptBuilder (utils/prompt_builder.py)
\* ------------------------------------------------------------------------
PromptTopK == 3      \* query(user_prompt, top_k=3)
Indent == "            "
FileNameLabel == "[file name]: "
DigitChars == <<"0", "1", "2", "3", "4", "5", "6", "7", "8", "9">>
Digit(n) == DigitChars[n + 1]

\* f"{score:.2f}" of a score given in tenths; the score of a missing
\* neighbour is -FLT_MAX
FormatScore(score) ==
    IF score = NegFltMax
    THEN <<"-", "340282346638528859811704183484516925440", ".", "0", "0">>
    ELSE <<"0", ".", Digit(score), "0">>

\* _format_file_context
format_file_context(file_name, content) ==
    <<"This is some additional context:", NL, Indent, FileNameLabel>>
        \o file_name
        \o <<NL, Indent, "[file content begin]", NL, Indent>>
        \o content
        \o <<NL, Indent, "[file content end]">>

\* f"Chunk #{i+1} (Score: {res['score']:.2f}):\n{res['chunk']}", i from 0
FormatChunk(i, res) ==
    <<"Chunk #", Digit(i + 1), " (Score: ">> \o FormatScore(res.score)
        \o <<"):", NL>> \o res.chunk

ContextText(retrieved) ==
    JoinLines([i \in 1..Len(retrieved) |-> FormatChunk(i - 1, retrieved[i])])

\* build_prompt queries whenever a file is uploaded and a context_search is
\* set, before it looks at include_full_doc.  (Variant used to show what
\* C23 rests on.)
NeedsQuery_BeforeFullDoc(pb, uploaded_file, include_full_doc) ==
    uploaded_file.present /\ pb.context_search

\* The branch of build_prompt that reaches self.context_search.query
NeedsQuery(pb, uploaded_file, include_full_doc) ==
    uploaded_file.present /\ ~include_full_doc /\ pb.context_search

\* The prompt build_prompt returns; retrieved is what query returned, <<>>
\* when it was not called
build_prompt(pb, history, uploaded_file, content, full_doc, retrieved) ==
    IF uploaded_file.present /\ full_doc
    THEN pb.context_prompt \o <<NL>>
             \o format_file_context(uploaded_file.name, content) \o <<NL>>
             \o history \o <<NL>>
    ELSE IF uploaded_file.present /\ pb.context_search /\ retrieved # <<>>
    THEN pb.context_prompt \o <<NL>>
             \o format_file_context(uploaded_file.name, ContextText(retrieved))
             \o <<NL>> \o history \o <<NL>>
    ELSE pb.context_prompt \o <<NL, NL>> \o history \o <<NL>>

ContextPrompts == {<<"B", NL, "b">>}
Histories == {RenderMessage([role |-> "user", content |-> <<"h", "i">>])}
PromptFiles ==
    {NoFile,
     [present |-> TRUE, name |-> <<"a", ".", "t", "x", "t">>,
      type |-> "text/plain", data |-> <<"a", "b">>]}
PromptFileContents == {<<>>, <<"a", "b">>}

\* PromptBuilder(context_prompt, context_search): context_search is the
\* engine constructed before, or None
MakePromptBuilder(cp, withSearch) ==
    /\ ~prompt_builder.made
    /\ withSearch => ctor = "returned"
    /\ prompt_builder' = [made |-> TRUE, context_prompt |-> cp,
                          context_search |-> withSearch]
    /\ UNCHANGED <<searchVars, chunker, conversationVars, streamVars,
                   fileVars, promptCall, loop>>

\* One call of build_prompt, the query it makes included
BuildPrompt(up, hist, f, fc, full, env, sc, ord) ==
    /\ prompt_builder.made
    /\ IF NeedsQuery(prompt_builder, f, full)
       THEN /\ nStarted < MaxQueries
            /\ AllIdle
            /\ \E r \in {QueryResult(chunks, model, index, top_k,
                                    score_threshold, modelLoads, indexBuilds,
                                    up, PromptTopK, env, sc, ord)} :
                   /\ model' = r.model
                   /\ index' = r.index
                   /\ modelLoads' = modelLoads + r.loaded
                   /\ indexBuilds' = indexBuilds + r.built
                   /\ createCalls' = createCalls + r.creates
                   /\ embedCalls' = embedCalls + r.encodes
                   /\ backendFailed' = (backendFailed \/ r.failed)
                   /\ last' = [n |-> nStarted + 1, q |-> up,
                               outcome |-> r.outcome, ret |-> r.ret,
                               hits |-> r.hits,
                               failedBefore |-> backendFailed,
                               buildFailed |-> r.failed]
                   /\ promptCall' =
                        [seq |-> 1 - promptCall.seq, outcome |-> r.outcome,
                         user_prompt |-> up, history |-> hist,
                         uploaded_file |-> f, file_content |-> fc,
                         include_full_doc |-> full,
                         prompt |-> IF r.outcome = "raised" THEN <<>>
                                    ELSE build_prompt(prompt_builder, hist, f,
                                                      fc, full, r.ret)]
            /\ nStarted' = nStarted + 1
            /\ UNCHANGED <<engineVars, call>>
       ELSE /\ promptCall' =
                 [seq |-> 1 - promptCall.seq, outcome |-> "returned",
                  user_prompt |-> up, history |-> hist, uploaded_file |-> f,
                  file_content |-> fc, include_full_doc |-> full,
                  prompt |-> build_prompt(prompt_builder, hist, f, fc, full,
                                          <<>>)]
            /\ UNCHANGED searchVars
    /\ UNCHANGED <<chunker, conversationVars, streamVars, fileVars,
                   prompt_builder, loop>>

PromptDocuments == {DocOf(0), DocOf(2)}

NextPrompt ==
    \/ \E d \in PromptDocuments, thr \in Thresholds :
          Construct([kind |-> "str", data |-> d], DefaultTopK, thr,
                    [ok |-> FALSE, text |-> <<>>])
    \/ \E cp \in ContextPrompts, withSearch \in BOOLEAN :
          MakePromptBuilder(cp, withSearch)
    \/ \E up \in Queries, hist \in Histories, f \in PromptFiles,
          fc \in PromptFileContents, full \in BOOLEAN :
          IF ~NeedsQuery(prompt_builder, f, full) \/ Strip(up) = <<>>
          THEN BuildPrompt(up, hist, f, fc, full, AllOk, NoScores, NoOrder)
          ELSE \E env \in BackendEnv :
                  IF env # AllOk
                  THEN BuildPrompt(up, hist, f, fc, full, env, NoScores,
                                   NoOrder)
                  ELSE \E sc \in ScoreMaps(Len(chunks)) :
                          \E ord \in Orders(sc, Len(chunks)) :
                              BuildPrompt(up, hist, f, fc, full, env, sc, ord)

SpecPrompt == Init /\ [][NextPrompt]_vars

\* ------------------------------------------------------------------------
\* The stream loop of chat_assist.py
\* ------------------------------------------------------------------------
ThinkOpen == OpeningTag("think")
ThinkClose == ClosingTag("think")
\* The marker "<think>\n" the loop puts into main_text
ThinkMarker == ThinkOpen \o <<NL>>

\* tag in text; text.split(tag, 1)
Contains(text, tag) == Find(text, tag) # -1
SplitOnce(text, tag) ==
    <<Upto(text, Find(text, tag)), From(text, Find(text, tag) + Len(tag))>>

\* str.replace(old, ""): every occurrence, left to right
RECURSIVE Remove(_, _)
Remove(text, old) ==
    IF ~Contains(text, old) THEN text
    ELSE Upto(text, Find(text, old))
             \o Remove(From(text, Find(text, old) + Len(old)), old)

\* The body of "for chunk in stream" for one chunk text
LoopBody(l, text) ==
    IF ~l.in_think
    THEN IF Contains(text, ThinkOpen)
         THEN LET parts == SplitOnce(text, ThinkOpen)
              IN  IF Contains(parts[2], ThinkClose)
                  THEN [l EXCEPT
                          !.main_text = @ \o ThinkMarker
                                          \o SplitOnce(parts[2], ThinkClose)[2],
                          !.thinking_text =
                              @ \o SplitOnce(parts[2], ThinkClose)[1],
                          !.in_think = FALSE]
                  ELSE [l EXCEPT !.main_text = @ \o ThinkMarker,
                                 !.thinking_text = @ \o parts[2],
                                 !.in_think = TRUE]
         ELSE [l EXCEPT !.main_text = @ \o text]
    ELSE IF Contains(text, ThinkClose)
         THEN [l EXCEPT !.thinking_text = @ \o SplitOnce(text, ThinkClose)[1],
                        !.in_think = FALSE,
                        !.main_text = @ \o SplitOnce(text, ThinkClose)[2]]
         ELSE [l EXCEPT !.thinking_text = @ \o text]

\* Chunks in which each tag arrives whole, and the responses made of them
LoopChunks ==
    {<<"x">>, ThinkOpen, ThinkClose, <<"y">> \o ThinkOpen \o <<"z">>,
     <<"z">> \o ThinkClose \o <<"w">>,
     <<"x">> \o ThinkOpen \o <<"y">> \o ThinkClose \o <<"z">>}
Responses == UNION {[1..n -> LoopChunks] : n \in 0..MaxChunks}

\* The script has initialised the session; client.generate returns a stream
InitLoop ==
    /\ InitContextSearch
    /\ chunker = IdleChunker
    /\ session_state = [has |-> TRUE, messages |-> <<>>]
    /\ convCall = NoConvCall
    /\ handler = NewHandler /\ stream = NoStream
    /\ file_buffer = FreshFileBuffer /\ fileCall = NoFileCall
    /\ prompt_builder = NoPromptBuilder /\ promptCall = NoPromptCall
    /\ loop \in {[IdleLoop EXCEPT !.pc = "streaming", !.response = r,
                                  !.chunks = r] : r \in Responses}

\* One pass of "for chunk in stream"
StreamChunk ==
    /\ loop.pc = "streaming"
    /\ loop.chunks # <<>>
    /\ loop' = [LoopBody(loop, Head(loop.chunks)) EXCEPT
                   !.chunks = Tail(loop.chunks)]
    /\ UNCHANGED <<searchVars, chunker, conversationVars, streamVars,
                   fileVars, promptVars>>

\* The stream is used up: the assistant message is added to the session
StoreResponse ==
    /\ loop.pc = "streaming"
    /\ loop.chunks = <<>>
    /\ loop' = [loop EXCEPT !.pc = "done"]
    /\ session_state' =
          [session_state EXCEPT !.messages =
              Append(@, [role |-> "assistant",
                         content |-> Remove(loop.main_text, ThinkMarker)])]
    /\ UNCHANGED <<searchVars, chunker, convCall, streamVars, fileVars,
                   promptVars>>

NextLoop ==
    \/ StreamChunk
    \/ StoreResponse

SpecLoop == InitLoop /\ [][NextLoop]_vars

\* ------------------------------------------------------------------------
\* Properties
\* ------------------------------------------------------------------------
QueryDone == last'.n = last.n + 1
BadBytes ==
    /\ file_content.kind = "bytes"
    /\ \E i \in 1..Len(file_content.data) : file_content.data[i] = BadByte
\* _load_document returned a document (it did not raise)
LoadedDoc ==
    /\ ctor = "returned"
    /\ \/ file_content.kind \in {"none", "str"}
       \/ file_content.kind = "bytes" /\ pdf # "failed"

\* C1: on every engine whose constructor returned, whatever it was given,
\* query never raises.
C1_QueryNeverRaises == ctor = "returned" => last.outcome # "raised"

\* C2: with two callers in query at once the index is built only once:
\* never does a second build of the index take place.
C2_IndexBuiltOnce == indexBuilds <= 1

\* C3: a query of empty or whitespace-only text returns the empty list and
\* leaves model and index as they were: no model is constructed, no index
\* built, the embedder is not called.
C3_BlankQueryTouchesNothing ==
    [][(QueryDone /\ Strip(last'.q) = <<>>) =>
        /\ last'.outcome = "returned"
        /\ last'.ret = <<>>
        /\ model' = model /\ index' = index
        /\ modelLoads' = modelLoads /\ indexBuilds' = indexBuilds
        /\ createCalls' = createCalls /\ embedCalls' = embedCalls]_vars

C3_Witness ==
    /\ last.n >= 1 /\ last.q = <<" ", NL>>
    /\ Len(chunks) >= 1 /\ index = NoneIndex /\ embedCalls = 0

\* C4: the constructor creates neither model nor index; a non-degenerate
\* query whose build does not fail leaves both created; once created the
\* same objects stay for every later query, so that over sequential
\* queries at most one model is constructed and at most one index built.
C4_LazyAndCached ==
    /\ [](nStarted = 0 => model.state # "obj" /\ index.state # "obj")
    /\ [](modelLoads <= 1 /\ indexBuilds <= 1)
    /\ []((/\ last.n >= 1 /\ Strip(last.q) # <<>> /\ last.outcome = "returned"
           /\ chunks # <<>> /\ ~last.buildFailed)
             => model.state = "obj" /\ index.state = "obj")
    /\ [][/\ model.state = "obj" => model' = model
          /\ index.state = "obj" => index' = index]_vars

C4_Witness ==
    /\ last.n = 2 /\ last.ret # <<>>
    /\ createCalls = 1 /\ indexBuilds = 1 /\ modelLoads = 1 /\ embedCalls = 3

\* C5 (as stated): once the backend failed during an index build, the
\* engine has no index and every later query returns the empty list.
C5_FailureIsSticky ==
    /\ backendFailed => index.state # "obj"
    /\ last.failedBefore => last.ret = <<>>

\* C5 (amended): the query in which the model load or a batch encode fails
\* returns the empty list and leaves the index None.
C5_FailedBuildGivesEmpty ==
    [][(QueryDone /\ last'.buildFailed) =>
        /\ last'.outcome = "returned"
        /\ last'.ret = <<>>
        /\ index' = NoneIndex]_vars

C5_Witness == last.buildFailed /\ last.failedBefore /\ last.n = 2

C8_EmptyDocument ==
    (LoadedDoc /\ Strip(document) = <<>>) =>
        /\ chunks = <<>>
        /\ index = NoneIndex
        /\ last.outcome # "raised" /\ last.ret = <<>>

C8_Witness ==
    /\ LoadedDoc /\ document = <<" ", NL>>
    /\ last.n >= 2 /\ Strip(last.q) # <<>> /\ createCalls >= 2

\* C9: an index that exists holds exactly one vector per chunk.
C9_IndexSizeMatchesChunks ==
    index.state = "obj" => index.ntotal = Len(chunks)

C9_Witness ==
    index.state = "obj" /\ Len(chunks) = 2 /\ last.n >= 2 /\ last.ret # <<>>

\* C10: every result has a score of at least score_threshold and is one of
\* the rows the search gave; when all rows are below the threshold the
\* result is empty.
C10_ResultsReachThreshold ==
    /\ \A i \in 1..Len(last.ret) :
          /\ last.ret[i].score >= score_threshold
          /\ \E p \in 1..Len(last.hits) :
                /\ last.hits[p].score = last.ret[i].score
                /\ last.hits[p].idx = last.ret[i].index
    /\ (\A p \in 1..Len(last.hits) : last.hits[p].score < score_threshold)
          => last.ret = <<>>

C10_Witness ==
    /\ score_threshold = 5 /\ Len(last.hits) = 2 /\ Len(last.ret) = 1
    /\ \E p \in 1..2 : last.hits[p].score = 2

\* C11: the list a query returns is ordered by non-increasing score.
C11_SortedByScore ==
    \A i \in 1..(Len(last.ret) - 1) : last.ret[i].score >= last.ret[i + 1].score

C11_Witness ==
    /\ Len(last.ret) = 2 /\ last.ret[1].score = 8 /\ last.ret[2].score = 5

\* C12: whatever top_k and score_threshold are, a query returns at most
\* min(top_k, number of chunks) results, every result names a chunk id in
\* 0..len(chunks)-1 together with that chunk, and no chunk id comes twice.
C12_ResultsAreDistinctChunks ==
    /\ Len(last.ret) <= Len(last.hits) /\ Len(last.ret) <= Len(chunks)
    /\ \A i \in 1..Len(last.ret) :
          /\ last.ret[i].index \in 0..(Len(chunks) - 1)
          /\ last.ret[i].chunk = chunks[last.ret[i].index + 1]
    /\ \A i, j \in 1..Len(last.ret) :
          i # j => last.ret[i].index # last.ret[j].index

\* The rows of the last search that reach the threshold, and their ids
SurvivingRows ==
    {p \in 1..Len(last.hits) : last.hits[p].score >= score_threshold}
SurvivingIds == {last.hits[p].idx : p \in SurvivingRows}

\* The context window of chunk id i, and the ids that open a merged
\* interval: those whose window neither overlaps nor touches the window of
\* a smaller surviving id.
WindowLo(i, w) == IF i - w < 0 THEN 0 ELSE i - w
WindowHi(i, w) == IF i + w > Len(chunks) - 1 THEN Len(chunks) - 1 ELSE i + w
MergedStarts(w) ==
    {i \in SurvivingIds :
        ~\E j \in SurvivingIds : j < i /\ WindowLo(i, w) <= WindowHi(j, w) + 1}
Windows == 0..2

C14_NonEmptyDocumentHasChunk ==
    (LoadedDoc /\ Strip(document) # <<>>) =>
        /\ Len(chunks) >= 1
        /\ (/\ Len(split_into_paragraphs(document)) = 1
            /\ Len(SplitWords(document)) < 10) => Len(chunks) = 1

\* The words of a text, and the characters it is made of
Chars(t) == {t[i] : i \in 1..Len(t)}
WordCount(t) == Len(SplitWords(t))
\* The last n words of a text, all of them when it has fewer
TailWords(t, n) ==
    LET w == SplitWords(t)
        k == IF n < Len(w) THEN n ELSE Len(w)
    IN  [i \in 1..k |-> w[Len(w) - k + i]]

\* The chunker steps from one call to its return give what the function
\* gives, and current_length is the word count of current_chunk.
ChunkerStepsAgree ==
    /\ chunker.pc = "done" =>
          chunker.out = create_contextual_chunks(chunker.text, chunker.maxw,
                                                 chunker.minw, chunker.ov)
    /\ chunker.len = WordCount(Join(chunker.cur))

\* C15: when the running chunk is not empty and the next sentence would
\* take its word count above max_words_per_chunk, the running chunk is
\* emitted as it is, and the new running chunk is the last overlap words of
\* the emitted chunk (all its words when it has fewer, none when overlap is
\* 0) followed by the new sentence.
C15_FlushSeedsOverlap ==
    [][(/\ chunker.pc = "sents" /\ chunker.sents # <<>>
        /\ chunker.cur # <<>>
        /\ WordCount(Join(chunker.cur)) + WordCount(Head(chunker.sents))
              > chunker.maxw)
       => /\ chunker'.out = Append(chunker.out, Join(chunker.cur))
          /\ SplitWords(Join(chunker'.cur)) =
                TailWords(Join(chunker.cur), chunker.ov)
                    \o SplitWords(Head(chunker.sents))
          /\ chunker.ov = 0 => chunker'.cur = <<Head(chunker.sents)>>]_vars

C15_Witness ==
    /\ chunker.pc = "sents" /\ chunker.ov = 2 /\ Len(chunker.out) = 1
    /\ WordCount(chunker.out[1]) = 1 /\ Len(chunker.cur) = 2
    /\ WordCount(Join(chunker.cur)) = 3

\* C16: at the end of a paragraph the remainder is emitted exactly when it
\* has at least min_words_per_chunk words; otherwise nothing is emitted,
\* and the next paragraph starts from an empty running chunk, so that every
\* chunk is made of the text of the paragraph it was emitted in.
C16_ShortResidueDropped ==
    /\ [][(chunker.pc = "sents" /\ chunker.sents = <<>>) =>
            chunker'.out =
                IF WordCount(Join(chunker.cur)) >= chunker.minw
                THEN Append(chunker.out, Join(chunker.cur))
                ELSE chunker.out]_vars
    /\ [][(chunker.pc = "paras" /\ chunker'.pc = "sents") =>
            chunker'.cur = <<>> /\ chunker'.len = 0]_vars
    /\ [][chunker'.out # chunker.out =>
            /\ Len(chunker'.out) = Len(chunker.out) + 1
            /\ Chars(chunker'.out[Len(chunker'.out)]) \subseteq Chars(chunker.para)
         ]_vars

C16_Witness ==
    /\ chunker.pc = "done" /\ chunker.minw = 3 /\ Len(chunker.out) = 1
    /\ "a" \in Chars(chunker.text)
    /\ Chars(chunker.out[1]) = {"b", " ", "."}

\* The rendering of the last k messages of the session, oldest first
ConvCalledNow == convCall'.seq # convCall.seq
HistoryOfLast(k) ==
    LET n == Len(session_state.messages)
    IN  JoinLines([i \in 1..k |->
                      RenderMessage(session_state.messages[n - k + i])])
MinOf(a, b) == IF a < b THEN a ELSE b

C18_AppendAndClear ==
    /\ [][(ConvCalledNow /\ convCall'.op = "add_message") =>
            /\ session_state'.has
            /\ session_state'.messages =
                  Append(session_state.messages,
                         [role |-> convCall'.role,
                          content |-> convCall'.content])]_vars
    /\ [][(ConvCalledNow /\ convCall'.op = "clear_history") =>
            session_state'.has /\ session_state'.messages = <<>>]_vars

C18_Witness ==
    /\ convCall.op = "add_message" /\ Len(session_state.messages) = 2
    /\ session_state.messages[1] # session_state.messages[2]
    /\ session_state.messages[2].content = convCall.content

\* C19: once the constructor has returned, no query call, whether it
\* returns results, returns the empty list or fails inside, changes
\* document, chunks, top_k or score_threshold.
C19_EngineFixedAtConstruction ==
    [][ctor = "returned" =>
        /\ document' = document /\ chunks' = chunks
        /\ top_k' = top_k /\ score_threshold' = score_threshold]_vars

C19_Witness ==
    /\ last.n = 2 /\ last.ret # <<>> /\ backendFailed /\ Len(chunks) = 2

\* The handler after the whole response as one chunk, then finalize
OneChunk(text) == finalize(process_chunk(NewHandler, text))

\* C20: however the response is cut into chunks, also inside a tag, after
\* the chunks in order and finalize the handler holds the main_text and
\* the reasoning_text that the whole response as one chunk gives, and its
\* buffer is empty.
C20_ChunkingIndependent ==
    stream.pc = "done" =>
        /\ handler.main_text = OneChunk(stream.text).main_text
        /\ handler.reasoning_text = OneChunk(stream.text).reasoning_text
        /\ handler.buffer = <<>>

C20_Witness ==
    /\ stream.pc = "done" /\ stream.cutInTag
    /\ handler.reasoning_text = Rep(<<"y">>, 11)
    /\ handler.main_text = <<>> /\ handler.current_tag = "thought"
    /\ ~handler.in_reasoning

\* C21: the string get_buffered_content returns for a file is the content
\* extracted from that file, and the buffer then holds that file's name,
\* size and content; a call without a file returns "" and leaves the
\* buffer reset.
C21_BufferMatchesFile ==
    fileCall.op = "get_buffered_content" =>
        IF fileCall.file.present
        THEN /\ fileCall.ret = extract_content(fileCall.file)
             /\ file_buffer.content = fileCall.ret
             /\ file_buffer.metadata = [name |-> fileCall.file.name,
                                        size |-> FileSize(fileCall.file)]
        ELSE /\ fileCall.ret = <<>>
             /\ file_buffer.metadata = NoMetadata
             /\ file_buffer.content = <<>>

\* The sentences of a text, over all its paragraphs
SentencesOf(text) ==
    UNION {{split_paragraph_into_sentences(split_into_paragraphs(text)[i])[j] :
               j \in 1..Len(split_paragraph_into_sentences(
                                split_into_paragraphs(text)[i]))} :
           i \in 1..Len(split_into_paragraphs(text))}
\* The words of chunk c end with the words of sentence s
EndsWithWords(c, s) ==
    LET cw == SplitWords(c)
        sw == SplitWords(s)
    IN  Len(sw) <= Len(cw) /\ SubSeq(cw, Len(cw) - Len(sw) + 1, Len(cw)) = sw

\* C22 (as stated): with overlap < max_words_per_chunk no chunk has more
\* than max_words_per_chunk words.
C22_ChunksWithinMax ==
    chunker.ov < chunker.maxw =>
        \A i \in 1..Len(chunker.out) : WordCount(chunker.out[i]) <= chunker.maxw

\* C22 (amended): a chunk has more than max_words_per_chunk words only
\* when it is one sentence, which the chunker never splits, preceded by at
\* most overlap words carried over from the chunk before it.
C22_OnlyOneSentenceExceeds ==
    \A i \in 1..Len(chunker.out) :
        \/ WordCount(chunker.out[i]) <= chunker.maxw
        \/ \E s \in SentencesOf(chunker.text) :
              /\ EndsWithWords(chunker.out[i], s)
              /\ WordCount(chunker.out[i]) - WordCount(s) <= chunker.ov

C22_Witness ==
    /\ chunker.pc = "done" /\ chunker.maxw = 2 /\ chunker.ov = 1
    /\ \E i \in 1..Len(chunker.out) : WordCount(chunker.out[i]) = 3

\* A step that is a call of build_prompt; the call reached query
PromptCalled == promptCall'.seq # promptCall.seq
PromptQueried == nStarted' = nStarted + 1

\* The prompt of base context prompt and history only; the prompt with the
\* whole file content; a prompt that has a file-context section
BasePrompt(c) ==
    prompt_builder.context_prompt \o <<NL, NL>> \o c.history \o <<NL>>
FullDocPrompt(c) ==
    prompt_builder.context_prompt \o <<NL>>
        \o format_file_context(c.uploaded_file.name, c.file_content)
        \o <<NL>> \o c.history \o <<NL>>
HasFileContext(p) == \E i \in 1..Len(p) : p[i] = FileNameLabel

\* C23: build_prompt calls context_search.query only when a file is
\* uploaded and include_full_doc is false; with include_full_doc true the
\* prompt embeds the full file content under the file-name label and no
\* query is made; when no file is uploaded, no context_search is set, or
\* the query returns no results, the prompt is the base context prompt and
\* the history only, without a file-context section.  (The second case is
\* read for an uploaded file; the third as it is worded, whatever
\* include_full_doc is.)
C23_QueryOnlyForRetrieval ==
    [][PromptCalled =>
        LET c == promptCall'
        IN  /\ PromptQueried =>
                   c.uploaded_file.present /\ ~c.include_full_doc
            /\ /\ c.outcome = "returned"
               /\ c.uploaded_file.present
               /\ c.include_full_doc
               => /\ ~PromptQueried
                  /\ c.prompt = FullDocPrompt(c)
                  /\ HasFileContext(c.prompt)
            /\ /\ c.outcome = "returned"
               /\ \/ ~c.uploaded_file.present
                  \/ ~prompt_builder.context_search
                  \/ PromptQueried /\ last'.ret = <<>>
               => /\ c.prompt = BasePrompt(c)
                  /\ ~HasFileContext(c.prompt)]_vars

\* C23 (as the code has it): the three cases are tested in this order.
\* With a file uploaded and include_full_doc true the prompt embeds the
\* full file content under the file-name label and no query is made,
\* whether or not a context_search is set.  query is called exactly when a
\* file is uploaded, include_full_doc is false and a context_search is set.
\* When no file is uploaded, or include_full_doc is false and either no
\* context_search is set or the query returns no results, the prompt is
\* the base context prompt and the history only, without a file-context
\* section.
C23_QueryOnlyInRetrievalBranch ==
    [][PromptCalled =>
        LET c == promptCall'
        IN  /\ PromptQueried <=>
                   /\ c.uploaded_file.present
                   /\ ~c.include_full_doc
                   /\ prompt_builder.context_search
            /\ /\ c.outcome = "returned"
               /\ c.uploaded_file.present
               /\ c.include_full_doc
               => /\ ~PromptQueried
                  /\ c.prompt = FullDocPrompt(c)
                  /\ HasFileContext(c.prompt)
            /\ /\ c.outcome = "returned"
               /\ \/ ~c.uploaded_file.present
                  \/ /\ ~c.include_full_doc
                     /\ \/ ~prompt_builder.context_search
                        \/ PromptQueried /\ last'.ret = <<>>
               => /\ c.prompt = BasePrompt(c)
                  /\ ~HasFileContext(c.prompt)]_vars

\* build_prompt has queried for a file with a non-blank prompt, the query
\* returned no result and the prompt is the base prompt
C23_Witness ==
    /\ promptCall.outcome = "returned"
    /\ promptCall.uploaded_file.present
    /\ ~promptCall.include_full_doc
    /\ prompt_builder.context_search
    /\ last.n >= 1 /\ last.q = promptCall.user_prompt
    /\ Strip(last.q) # <<>>
    /\ chunks # <<>>
    /\ last.ret = <<>>
    /\ promptCall.prompt =
           prompt_builder.context_prompt \o <<NL, NL>> \o promptCall.history
               \o <<NL>>

\* The text of a response outside and inside its think sections
RECURSIVE OutsideThink(_)
OutsideThink(t) ==
    IF ~Contains(t, ThinkOpen) THEN t
    ELSE LET rest == SplitOnce(t, ThinkOpen)[2]
         IN  SplitOnce(t, ThinkOpen)[1]
                 \o (IF Contains(rest, ThinkClose)
                     THEN OutsideThink(SplitOnce(rest, ThinkClose)[2])
                     ELSE <<>>)
RECURSIVE InsideThink(_)
InsideThink(t) ==
    IF ~Contains(t, ThinkOpen) THEN <<>>
    ELSE LET rest == SplitOnce(t, ThinkOpen)[2]
         IN  IF Contains(rest, ThinkClose)
             THEN SplitOnce(rest, ThinkClose)[1]
                      \o InsideThink(SplitOnce(rest, ThinkClose)[2])
             ELSE rest

\* C24: when the stream is used up, thinking_text is the text inside the
\* think tags and the assistant message stored in the session is the
\* response without its think section: no character outside the tag
\* markers is lost.
C24_NoResponseTextLost ==
    loop.pc = "done" =>
        /\ loop.thinking_text = InsideThink(Concat(loop.response))
        /\ session_state.messages[Len(session_state.messages)].content =
              OutsideThink(Concat(loop.response))

====
